---- MODULE Spec2Model ----
(***************************************************************************)
(* A model of the MatrixMarket reader (matrixmarket.hpp): the Tokens       *)
(* lexer, read_header, and the read_csr / read_csc pipeline (coordinate    *)
(* reader, sort, compression into offsets / indices / values).             *)
(*                                                                         *)
(* Text is modelled as sequences of symbols.  A symbol is a string: the    *)
(* separator " ", the comment character "%", a decimal digit, or one of    *)
(* the words of the format ("%%MatrixMarket", "matrix", ...), which are    *)
(* kept atomic.  A file is a sequence of lines plus the information        *)
(* whether its last line is terminated by a newline.                       *)
(*                                                                         *)
(* CoordType and ValueType are the integers: every number of the model     *)
(* stays far below the width of any integral CoordType, so no conversion   *)
(* overflows.  std::sort is modelled by its contract.                      *)
(***************************************************************************)
EXTENDS Integers, Sequences, FiniteSets, Bags, TLC

VARIABLES
    file,       \* the input file: [lines, endsNL]
    target,     \* "csr" (read_csr) or "csc" (read_csc); "none" in the lexer specification
    pc,         \* position of the decode
    err,        \* message of the exception thrown ("" when none)
    pos,        \* std::ifstream: index of the next unread line
    eofbit,     \* std::ifstream: eofbit
    failbit,    \* std::ifstream: failbit
    line,       \* read_header's std::string line
    header,     \* Header<CoordType>
    i,          \* the data loop's counter
    nonzeros,   \* std::vector<Nonzero>
    k,          \* position of the range-for over nonzeros (1-based)
    current,    \* current_row / current_col
    offsets,    \* row_offsets / col_offsets
    indices,    \* col_indices / row_indices
    values,     \* values
    matrix,     \* the returned CSRMatrix / CSCMatrix
    tstr,       \* lexer specification: the string given to Tokens
    tsep,       \* lexer specification: the separator given to Tokens
    tokens,     \* lexer specification: Tokens::tokens (the deque)
    ret,        \* lexer specification: the value the last pop() / peek() returned
    lastop,     \* lexer specification: the last member called
    npop        \* lexer specification: number of pop() calls so far

readerVars == <<file, target, pc, err, pos, eofbit, failbit, line, header, i,
                nonzeros, k, current, offsets, indices, values, matrix>>
lexerVars == <<tstr, tsep, tokens, ret, lastop, npop>>
vars == <<file, target, pc, err, pos, eofbit, failbit, line, header, i,
          nonzeros, k, current, offsets, indices, values, matrix,
          tstr, tsep, tokens, ret, lastop, npop>>

(***************************************************************************)
(* Bounds of the model.                                                    *)
(***************************************************************************)
MaxDim == 2        \* num_rows and num_cols range over 0..MaxDim
MaxNnz == 2        \* at most MaxNnz data lines
MaxComments == 2   \* at most MaxComments comment lines
MaxLineLen == 4    \* lexer specification: lines of at most MaxLineLen symbols

(***************************************************************************)
(* Tokens (the lexer)                                                      *)
(***************************************************************************)

\* Index of the first occurrence of sep in str at or after j, Len(str)+1 if none.
RECURSIVE ScanTo(_, _, _)
ScanTo(str, sep, j) ==
    IF j > Len(str) THEN Len(str) + 1
    ELSE IF str[j] = sep THEN j
    ELSE ScanTo(str, sep, j + 1)

\* A faulty variant of IssGetline: a read at the end of the string still
\* yields an (empty) token once, as a naive split would.
IssGetlineNaive(str, sep, from) ==
    LET j == ScanTo(str, sep, from)
    IN  [ok    |-> from <= Len(str) + 1,
         token |-> SubSeq(str, from, j - 1),
         next  |-> IF j > Len(str) THEN Len(str) + 2 ELSE j + 1]

\* std::getline(iss, token, sep) on the istringstream whose next unread
\* character is str[from]: fails when no character is left; otherwise extracts
\* up to the separator (consumed, not stored) or to the end of the string.
IssGetline(str, sep, from) ==
    LET j == ScanTo(str, sep, from)
    IN  [ok    |-> from <= Len(str),
         token |-> SubSeq(str, from, j - 1),
         next  |-> j + 1]

\* The constructor's loop: while (std::getline(iss, token, sep)) push_back(token).
\* (g is bound, not LET-defined, so that each read is evaluated once.)
RECURSIVE TokensFrom(_, _, _)
TokensFrom(str, sep, from) ==
    CHOOSE toks \in {IF g.ok THEN <<g.token>> \o TokensFrom(str, sep, g.next) ELSE <<>> :
                        g \in {IssGetline(str, sep, from)}} : TRUE

Tokens(str, sep) == TokensFrom(str, sep, 1)

(***************************************************************************)
(* Utility functions                                                       *)
(***************************************************************************)

DigitSym == <<"0", "1", "2", "3", "4", "5", "6", "7", "8", "9">>
Digits == {DigitSym[n] : n \in 1..10}
DigitVal(d) == (CHOOSE n \in 1..10 : DigitSym[n] = d) - 1

\* The value of the digits of s from position j on, up to the first non-digit.
RECURSIVE DigitsValue(_, _, _)
DigitsValue(s, j, acc) ==
    IF j > Len(s) \/ s[j] \notin Digits THEN acc
    ELSE DigitsValue(s, j + 1, acc * 10 + DigitVal(s[j]))

\* iss >> int_val: the leading digits; 0 when the extraction fails (C++11).
parse_int(int_string) ==
    IF int_string = <<>> \/ int_string[1] \notin Digits THEN 0
    ELSE DigitsValue(int_string, 1, 0)

\* iss >> num_val: as parse_int on the values the model writes (whole numbers).
parse_num(num_string) ==
    IF num_string = <<>> \/ num_string[1] \notin Digits THEN 0
    ELSE DigitsValue(num_string, 1, 0)

parse_value_fmt(value_fmt_string) ==
    IF value_fmt_string = <<"real">> THEN "REAL"
    ELSE IF value_fmt_string = <<"integer">> THEN "INTEGER"
    ELSE IF value_fmt_string = <<"pattern">> THEN "PATTERN"
    ELSE "throw"

\* A faulty variant of parse_symmetry: any literal but "general" is taken as symmetric.
parse_symmetry_lax(symmetry_string) ==
    IF symmetry_string = <<"general">> THEN "GENERAL" ELSE "SYMMETRIC"

parse_symmetry(symmetry_string) ==
    IF symmetry_string = <<"general">> THEN "GENERAL"
    ELSE IF symmetry_string = <<"symmetric">> THEN "SYMMETRIC"
    ELSE "throw"

(***************************************************************************)
(* The file stream                                                         *)
(***************************************************************************)

\* std::getline(f, str) on the std::ifstream, str holding cur before the call.
\* With eofbit or failbit set the sentry fails: failbit is set and str is left
\* as it was.  Otherwise str is erased; with no character left nothing is
\* extracted (eofbit and failbit); a last line without a newline sets eofbit.
FileGetline(cur) ==
    IF eofbit \/ failbit
    THEN [line |-> cur, pos |-> pos, eofbit |-> eofbit, failbit |-> TRUE]
    ELSE IF pos > Len(file.lines)
    THEN [line |-> <<>>, pos |-> pos, eofbit |-> TRUE, failbit |-> TRUE]
    ELSE [line |-> file.lines[pos], pos |-> pos + 1,
          eofbit |-> (pos = Len(file.lines) /\ ~file.endsNL), failbit |-> FALSE]

\* line[0] == '%' (line[0] of an empty string is '\0').
StartsWithPercent(str) ==
    str # <<>> /\ str[1] \in {"%", "%%MatrixMarket"}

(***************************************************************************)
(* read_header                                                             *)
(***************************************************************************)

\* The checks of the format line, in the order of the code: "" when it passes.
FormatLineError(toks) ==
    IF Len(toks) # 5 THEN "Bad Header: ill-shaped format line"
    ELSE IF toks[1] # <<"%%MatrixMarket">> THEN "Bad Header: missing %%MatrixMarket"
    ELSE IF toks[2] # <<"matrix">> THEN "Bad Header: only matrix supported"
    ELSE IF toks[3] # <<"coordinate">> THEN "Bad Header: only coordinate supported"
    ELSE IF parse_value_fmt(toks[4]) = "throw" THEN "Bad Header: unknown value format"
    ELSE IF parse_symmetry(toks[5]) = "throw" THEN "Bad Header: unknown symmetry"
    ELSE ""

ReadFormatLine ==
    /\ pc = "header"
    /\ LET g == FileGetline(line)
           toks == Tokens(g.line, " ")
           e == FormatLineError(toks)
       IN  /\ line' = g.line
           /\ pos' = g.pos
           /\ eofbit' = g.eofbit
           /\ failbit' = g.failbit
           /\ IF e # ""
              THEN /\ pc' = "error"
                   /\ err' = e
                   /\ header' = header
              ELSE /\ pc' = "skip_read"
                   /\ err' = err
                   /\ header' = [header EXCEPT !.value_type = parse_value_fmt(toks[4]),
                                               !.symmetry = parse_symmetry(toks[5])]
    /\ UNCHANGED <<file, target, i, nonzeros, k, current, offsets, indices, values, matrix>>
    /\ UNCHANGED lexerVars

\* The body of the do-while: std::getline(f, line).
CommentGetline ==
    /\ pc = "skip_read"
    /\ LET g == FileGetline(line)
       IN  /\ line' = g.line
           /\ pos' = g.pos
           /\ eofbit' = g.eofbit
           /\ failbit' = g.failbit
    /\ pc' = "skip_test"
    /\ UNCHANGED <<file, target, err, header, i, nonzeros, k, current, offsets, indices,
                   values, matrix>>
    /\ UNCHANGED lexerVars

\* The condition of the do-while: while (line[0] == '%').
CommentTest ==
    /\ pc = "skip_test"
    /\ pc' = IF StartsWithPercent(line) THEN "skip_read" ELSE "size"
    /\ UNCHANGED <<file, target, err, pos, eofbit, failbit, line, header, i, nonzeros, k,
                   current, offsets, indices, values, matrix>>
    /\ UNCHANGED lexerVars

ReadSize ==
    /\ pc = "size"
    /\ LET toks == Tokens(line, " ")
       IN  IF Len(toks) # 3
           THEN /\ pc' = "error"
                /\ err' = "Bad Header: missing matrix size"
                /\ header' = header
           ELSE /\ pc' = "data"
                /\ err' = err
                /\ header' = [header EXCEPT !.num_rows = parse_int(toks[1]),
                                            !.num_cols = parse_int(toks[2]),
                                            !.num_nonzeros = parse_int(toks[3])]
    /\ i' = 0
    /\ UNCHANGED <<file, target, pos, eofbit, failbit, line, nonzeros, k, current, offsets,
                   indices, values, matrix>>
    /\ UNCHANGED lexerVars

(***************************************************************************)
(* read_csr / read_csc: the coordinate reader                              *)
(***************************************************************************)

\* A faulty variant of BoundsError: the lower bounds are those of 0-based
\* indices (row < 0, col < 0), so that row 0 and col 0 pass.
BoundsErrorZeroAllowed(row, col, h) ==
    IF row < 0 \/ row > h.num_rows THEN "Bad Matrix: row out of bounds"
    ELSE IF col < 0 \/ col > h.num_cols THEN "Bad Matrix: col out of bounds"
    ELSE ""

\* The bounds checks on the 1-indexed row and col: "" when they pass.
BoundsError(row, col, h) ==
    IF row < 1 \/ row > h.num_rows THEN "Bad Matrix: row out of bounds"
    ELSE IF col < 1 \/ col > h.num_cols THEN "Bad Matrix: col out of bounds"
    ELSE ""

\* The checks of one data line, in the order of the code: "" when it passes.
DataLineError(toks, h) ==
    IF h.value_type = "PATTERN" /\ Len(toks) # 2 THEN "Bad Matrix: ill-shaped pattern line"
    ELSE IF h.value_type # "PATTERN" /\ Len(toks) # 3 THEN "Bad Matrix: ill-shaped value line"
    ELSE BoundsError(parse_int(toks[1]), parse_int(toks[2]), h)

\* value = PATTERN ? 1 : parse_num(tokens.pop())
DataValue(toks, h) ==
    IF h.value_type = "PATTERN" THEN 1 ELSE parse_num(toks[3])

\* A faulty variant of Expand: the mirrored entry is pushed whatever the symmetry.
ExpandAlways(row, col, value, symmetry) ==
    <<[row |-> row, col |-> col, value |-> value]>> \o
    (IF row # col THEN <<[row |-> col, col |-> row, value |-> value]>> ELSE <<>>)

\* A faulty variant of Expand: the mirrored entry is pushed for diagonal entries too.
ExpandDiagonal(row, col, value, symmetry) ==
    <<[row |-> row, col |-> col, value |-> value]>> \o
    (IF symmetry = "SYMMETRIC"
     THEN <<[row |-> col, col |-> row, value |-> value]>> ELSE <<>>)

\* The entries one data line pushes (row and col already 0-indexed): the entry,
\* and its mirror when the file is symmetric and the entry off the diagonal.
Expand(row, col, value, symmetry) ==
    <<[row |-> row, col |-> col, value |-> value]>> \o
    (IF symmetry = "SYMMETRIC" /\ row # col
     THEN <<[row |-> col, col |-> row, value |-> value]>> ELSE <<>>)

\* One iteration of the data loop.
ReadDataLine ==
    /\ pc = "data"
    /\ i < header.num_nonzeros
    /\ LET g == FileGetline(<<>>)
           toks == Tokens(g.line, " ")
           e == DataLineError(toks, header)
       IN  /\ pos' = g.pos
           /\ eofbit' = g.eofbit
           /\ failbit' = g.failbit
           /\ IF e # ""
              THEN /\ pc' = "error"
                   /\ err' = e
                   /\ UNCHANGED <<i, nonzeros>>
              ELSE /\ pc' = pc
                   /\ err' = err
                   /\ i' = i + 1
                   /\ nonzeros' = nonzeros \o Expand(parse_int(toks[1]) - 1,
                                                     parse_int(toks[2]) - 1,
                                                     DataValue(toks, header),
                                                     header.symmetry)
    /\ UNCHANGED <<file, target, line, header, k, current, offsets, indices, values, matrix>>
    /\ UNCHANGED lexerVars

(***************************************************************************)
(* read_csr / read_csc: the compressor                                     *)
(***************************************************************************)

Major(nz, t) == IF t = "csr" THEN nz.row ELSE nz.col
Minor(nz, t) == IF t = "csr" THEN nz.col ELSE nz.row
MajorDim(h, t) == IF t = "csr" THEN h.num_rows ELSE h.num_cols
MinorDim(h, t) == IF t = "csr" THEN h.num_cols ELSE h.num_rows

\* A faulty variant of Comp: the minor index is compared the wrong way round.
CompMinorDescending(a, b, t) ==
    \/ Major(a, t) < Major(b, t)
    \/ Major(a, t) = Major(b, t) /\ Minor(a, t) > Minor(b, t)

\* The comparator: std::tie(a.row, a.col) < std::tie(b.row, b.col) for CSR,
\* std::tie(a.col, a.row) < std::tie(b.col, b.row) for CSC.
Comp(a, b, t) ==
    \/ Major(a, t) < Major(b, t)
    \/ Major(a, t) = Major(b, t) /\ Minor(a, t) < Minor(b, t)

InsertAt(s, p, x) == SubSeq(s, 1, p - 1) \o <<x>> \o SubSeq(s, p, Len(s))

\* The places of sorted sequence s where x can stand with the result sorted.
SortedPlaces(s, x, t) ==
    {p \in 1..(Len(s) + 1) :
        /\ \A q \in 1..(p - 1) : ~Comp(x, s[q], t)
        /\ \A q \in p..Len(s) : ~Comp(s[q], x, t)}

\* std::sort(begin, end, comp): the result is a permutation of s ordered by
\* comp; the order of equivalent elements is unspecified, so every ordered
\* permutation is a possible outcome.
RECURSIVE SortOutcomes(_, _)
SortOutcomes(s, t) ==
    IF s = <<>> THEN {<<>>}
    ELSE UNION {{InsertAt(r, p, Head(s)) : p \in SortedPlaces(r, Head(s), t)} :
                    r \in SortOutcomes(Tail(s), t)}

\* std::sort and the initialisation of the output vectors.
Sort ==
    /\ pc = "data"
    /\ ~(i < header.num_nonzeros)
    /\ nonzeros' \in SortOutcomes(nonzeros, target)
    /\ offsets' = <<0>>
    /\ indices' = <<>>
    /\ values' = <<>>
    /\ current' = 0
    /\ k' = 1
    /\ pc' = "compress"
    /\ UNCHANGED <<file, target, err, pos, eofbit, failbit, line, header, i, matrix>>
    /\ UNCHANGED lexerVars

\* while (cur < upto) { offsets.push_back(count); ++cur; }: the offsets after it.
Advance(offs, cur, upto, count) ==
    offs \o [j \in 1..(IF cur < upto THEN upto - cur ELSE 0) |-> count]

\* The cursor after that loop.
Cursor(cur, upto) == IF cur < upto THEN upto ELSE cur

\* One iteration of the range-for over the sorted nonzeros.
CompressEntry ==
    /\ pc = "compress"
    /\ k <= Len(nonzeros)
    /\ LET nz == nonzeros[k]
       IN  /\ offsets' = Advance(offsets, current, Major(nz, target), Len(indices))
           /\ current' = Cursor(current, Major(nz, target))
           /\ indices' = Append(indices, Minor(nz, target))
           /\ values' = Append(values, nz.value)
    /\ k' = k + 1
    /\ UNCHANGED <<file, target, pc, err, pos, eofbit, failbit, line, header, i, nonzeros,
                   matrix>>
    /\ UNCHANGED lexerVars

\* The loop after the range-for, covering the trailing empty rows / columns.
PadOffsets ==
    /\ pc = "compress"
    /\ k > Len(nonzeros)
    /\ offsets' = Advance(offsets, current, MajorDim(header, target), Len(indices))
    /\ current' = Cursor(current, MajorDim(header, target))
    /\ pc' = "return"
    /\ UNCHANGED <<file, target, err, pos, eofbit, failbit, line, header, i, nonzeros, k,
                   indices, values, matrix>>
    /\ UNCHANGED lexerVars

\* return CSRMatrix{...} / CSCMatrix{...}
Return ==
    /\ pc = "return"
    /\ matrix' = [num_rows |-> header.num_rows,
                  num_cols |-> header.num_cols,
                  num_nonzeros |-> Len(values),
                  offsets |-> offsets,
                  indices |-> indices,
                  values |-> values]
    /\ pc' = "done"
    /\ UNCHANGED <<file, target, err, pos, eofbit, failbit, line, header, i, nonzeros, k,
                   current, offsets, indices, values>>
    /\ UNCHANGED lexerVars

(***************************************************************************)
(* The input files the decode is run on                                    *)
(***************************************************************************)

\* The decimal digits of n.
RECURSIVE FormatInt(_)
FormatInt(n) ==
    IF n < 10 THEN <<DigitSym[n + 1]>>
    ELSE FormatInt(n \div 10) \o <<DigitSym[(n % 10) + 1]>>

\* The fields joined by single spaces.
RECURSIVE JoinSp(_)
JoinSp(fields) ==
    IF fields = <<>> THEN <<>>
    ELSE IF Len(fields) = 1 THEN fields[1]
    ELSE fields[1] \o <<" ">> \o JoinSp(Tail(fields))

HeaderLine(fmt, sym) ==
    JoinSp(<< <<"%%MatrixMarket">>, <<"matrix">>, <<"coordinate">>, <<fmt>>, <<sym>> >>)

SizeLine(r, c, n) == JoinSp(<<FormatInt(r), FormatInt(c), FormatInt(n)>>)

DataLine(fmt, r, c, v) ==
    IF fmt = "pattern" THEN JoinSp(<<FormatInt(r), FormatInt(c)>>)
    ELSE JoinSp(<<FormatInt(r), FormatInt(c), FormatInt(v)>>)

CommentLine == <<"%", " ", "matrix">>

\* The value written on the j-th data line: every line has its own.
ValueOf(j) == 4 + j

MkFile(lines, endsNL) == [lines |-> lines, endsNL |-> endsNL]

\* Sequences of n 1-indexed (row, col) pairs within rows x cols, and those with
\* exactly one pair just outside (row 0, row rows+1, col 0, col cols+1).
InRangeSeqs(rows, cols, n) == [1..n -> (1..rows) \X (1..cols)]

OutOfRangePairs(rows, cols) ==
    {<<0, 1>>, <<rows + 1, 1>>, <<1, 0>>, <<1, cols + 1>>}

OneBadSeqs(rows, cols, n) ==
    IF n = 0 THEN {}
    ELSE {[j \in 1..n |-> IF j < at THEN s[j] ELSE IF j = at THEN b ELSE s[j - 1]] :
             s \in InRangeSeqs(rows, cols, n - 1),
             at \in 1..n,
             b \in OutOfRangePairs(rows, cols)}

CoordSeqs(rows, cols, n) == InRangeSeqs(rows, cols, n) \cup OneBadSeqs(rows, cols, n)

\* Well-shaped files: a header, a size line and as many data lines as declared.
MatrixFilesOf(fmt, sym, rows, cols) ==
    {MkFile(<<HeaderLine(fmt, sym), SizeLine(rows, cols, Len(s))>> \o
            [j \in 1..Len(s) |-> DataLine(fmt, s[j][1], s[j][2], ValueOf(j))], TRUE) :
        s \in UNION {CoordSeqs(rows, cols, n) : n \in 0..MaxNnz}}

\* Format lines: five fields of right and wrong words, and ill-shaped lines.
FormatLines ==
    {JoinSp(<< <<w[1]>>, <<w[2]>>, <<w[3]>>, <<w[4]>>, <<w[5]>> >>) :
        w \in {"%%MatrixMarket", "%"} \X {"matrix", "array"} \X {"coordinate", "array"}
              \X {"real", "integer", "pattern", "general"}
              \X {"general", "symmetric", "real"}}
    \cup {HeaderLine(f, "symmetric") \o <<" ">> : f \in {"real", "integer", "pattern"}}
    \cup {<<" ">> \o HeaderLine("real", "general"),
          HeaderLine("real", "general") \o <<" ", "general">>,
          HeaderLine("real", "general") \o <<" ", " ">>,
          <<"%%MatrixMarket", " ", "matrix", " ", "coordinate", " ", "real">>,
          <<"%%MatrixMarket", " ", "matrix", " ", " ", "coordinate", " ", "real", " ", "general">>,
          <<"%%MatrixMarket", " ", "matrix", " ", "coordinate", " ", " ", "general">>,
          <<>>}

HeaderFiles ==
    {MkFile(<<h, SizeLine(1, 1, 0)>>, TRUE) : h \in FormatLines} \cup {MkFile(<<>>, FALSE)}

\* Files with comment lines, ending inside or after the comment block, with
\* and without a final newline.
CommentFiles ==
    {MkFile(<<HeaderLine("real", "general")>> \o [j \in 1..c |-> CommentLine] \o rest, nl) :
        c \in 0..MaxComments,
        rest \in {<<>>,
                  << <<>> >>,
                  <<SizeLine(1, 1, 0)>>,
                  <<SizeLine(1, 1, 1), DataLine("real", 1, 1, 5)>>},
        nl \in BOOLEAN}

\* Ill-shaped size lines and data lines, missing and surplus data lines.
ShapeFiles ==
    {MkFile(<<HeaderLine("real", "general")>> \o rest, TRUE) :
        rest \in {<< <<"1", " ", "1">> >>,
                  << <<"1", " ", "1", " ", "0", " ", "0">> >>,
                  << <<"1", " ", "1", " ", "0", " ">> >>,
                  << <<"matrix", " ", "1", " ", "0">> >>,
                  << <<"1", " ", " ", "1", " ", "0">> >>,
                  <<SizeLine(1, 1, 1)>>,
                  <<SizeLine(1, 1, 2), DataLine("real", 1, 1, 5)>>,
                  <<SizeLine(1, 1, 1), DataLine("real", 1, 1, 5), DataLine("real", 2, 2, 6)>>,
                  <<SizeLine(1, 1, 1), DataLine("pattern", 1, 1, 5)>>,
                  <<SizeLine(1, 1, 1), DataLine("real", 1, 1, 5) \o <<" ">> >>,
                  <<SizeLine(1, 1, 1), <<"1", " ", " ", "1", " ", "5">> >>,
                  <<SizeLine(2, 2, 2), DataLine("real", 1, 1, 5), <<>>, DataLine("real", 2, 2, 6)>>,
                  <<SizeLine(12, 1, 1), DataLine("real", 10, 1, 5)>>}}
    \cup
    {MkFile(<<HeaderLine("pattern", "general")>> \o rest, TRUE) :
        rest \in {<<SizeLine(1, 1, 1), DataLine("real", 1, 1, 5)>>,
                  <<SizeLine(1, 1, 1), DataLine("pattern", 1, 1, 5) \o <<" ">> >>}}

\* A file's last line ends with a newline or is not empty; the empty file has
\* no line at all.
IsFile(f) ==
    /\ f.lines = <<>> => ~f.endsNL
    /\ (f.lines # <<>> /\ ~f.endsNL) => f.lines[Len(f.lines)] # <<>>

\* The files with an ill-formed or unusual header, comment block or shape.
OtherFiles == {f \in HeaderFiles \cup CommentFiles \cup ShapeFiles : IsFile(f)}

\* The value formats and symmetries of the well-shaped files.
FileKinds ==
    {<<"real", "general">>, <<"integer", "general">>, <<"pattern", "general">>,
     <<"real", "symmetric">>, <<"pattern", "symmetric">>}

\* The files of one value format, symmetry and size; the other files are
\* counted with the first of these families.
FilesOf(fmt, sym, rows, cols) ==
    MatrixFilesOf(fmt, sym, rows, cols) \cup
    (IF fmt = "real" /\ sym = "general" /\ rows = 0 /\ cols = 0 THEN OtherFiles ELSE {})

(***************************************************************************)
(* The decode: read_csr / read_csc on one file                             *)
(***************************************************************************)

NoHeader == [symmetry |-> "GENERAL", value_type |-> "REAL",
             num_rows |-> 0, num_cols |-> 0, num_nonzeros |-> 0]

NoMatrix == [num_rows |-> 0, num_cols |-> 0, num_nonzeros |-> 0,
             offsets |-> <<>>, indices |-> <<>>, values |-> <<>>]

LexerIdle ==
    /\ tstr = <<>>
    /\ tsep = " "
    /\ tokens = <<>>
    /\ ret = <<>>
    /\ lastop = "none"
    /\ npop = 0

Init ==
    /\ \E f \in FileKinds, d \in (0..MaxDim) \X (0..MaxDim) :
           file \in FilesOf(f[1], f[2], d[1], d[2])
    /\ target \in {"csr", "csc"}
    /\ pc = "header"
    /\ err = ""
    /\ pos = 1
    /\ eofbit = FALSE
    /\ failbit = FALSE
    /\ line = <<>>
    /\ header = NoHeader
    /\ i = 0
    /\ nonzeros = <<>>
    /\ k = 1
    /\ current = 0
    /\ offsets = <<>>
    /\ indices = <<>>
    /\ values = <<>>
    /\ matrix = NoMatrix
    /\ LexerIdle

Next ==
    \/ ReadFormatLine
    \/ CommentGetline
    \/ CommentTest
    \/ ReadSize
    \/ ReadDataLine
    \/ Sort
    \/ CompressEntry
    \/ PadOffsets
    \/ Return

Spec == Init /\ [][Next]_vars

\* The decode runs on: a step is taken whenever one is possible.
FairSpec == Init /\ [][Next]_vars /\ WF_vars(Next)

(***************************************************************************)
(* The lexer on its own: a Tokens object built from a string, then a       *)
(* sequence of pop() and peek() calls.                                     *)
(***************************************************************************)

LexAlphabet == {" ", ",", "a"}
LexStrings == UNION {[1..n -> LexAlphabet] : n \in 0..MaxLineLen}

ReaderIdle ==
    /\ file = MkFile(<<>>, FALSE)
    /\ target = "none"
    /\ pc = "idle"
    /\ err = ""
    /\ pos = 1
    /\ eofbit = FALSE
    /\ failbit = FALSE
    /\ line = <<>>
    /\ header = NoHeader
    /\ i = 0
    /\ nonzeros = <<>>
    /\ k = 1
    /\ current = 0
    /\ offsets = <<>>
    /\ indices = <<>>
    /\ values = <<>>
    /\ matrix = NoMatrix

InitTok ==
    /\ ReaderIdle
    /\ tstr \in LexStrings
    /\ tsep \in {" ", ","}
    /\ tokens = <<>>
    /\ ret = <<>>
    /\ lastop = "none"
    /\ npop = 0

\* Tokens(std::string& str, char sep)
TokConstruct ==
    /\ lastop = "none"
    /\ tokens' = Tokens(tstr, tsep)
    /\ lastop' = "ctor"
    /\ UNCHANGED <<tstr, tsep, ret, npop>>
    /\ UNCHANGED readerVars

\* pop(): assert(!tokens.empty()); front(); pop_front()
TokPop ==
    /\ lastop # "none"
    /\ tokens # <<>>
    /\ ret' = Head(tokens)
    /\ tokens' = Tail(tokens)
    /\ lastop' = "pop"
    /\ npop' = npop + 1
    /\ UNCHANGED <<tstr, tsep>>
    /\ UNCHANGED readerVars

\* peek(): assert(!tokens.empty()); front()
TokPeek ==
    /\ lastop # "none"
    /\ tokens # <<>>
    /\ ret' = Head(tokens)
    /\ lastop' = "peek"
    /\ UNCHANGED <<tstr, tsep, tokens, npop>>
    /\ UNCHANGED readerVars

NextTok ==
    \/ TokConstruct
    \/ TokPop
    \/ TokPeek

SpecTok == InitTok /\ [][NextTok]_vars

(***************************************************************************)
(* What the claims are stated with: the input as the format describes it,  *)
(* read off the file independently of the decode's own state.              *)
(***************************************************************************)

SeqToBag(s) == [x \in {s[j] : j \in DOMAIN s} |-> Cardinality({j \in DOMAIN s : s[j] = x})]

Decoded == pc = "done"
Failed == pc = "error"
Symmetric == header.symmetry = "SYMMETRIC"

\* The split of str on sep with every segment kept: n separators, n+1 segments.
RECURSIVE NaiveSplitFrom(_, _, _)
NaiveSplitFrom(str, sep, from) ==
    LET j == ScanTo(str, sep, from)
    IN  IF j > Len(str) THEN <<SubSeq(str, from, Len(str))>>
        ELSE <<SubSeq(str, from, j - 1)>> \o NaiveSplitFrom(str, sep, j + 1)

NaiveSplit(str, sep) == NaiveSplitFrom(str, sep, 1)

\* The naive split without its last segment when that segment is empty (the
\* string is empty or ends with the separator).
SplitDroppingLastEmpty(str, sep) ==
    LET all == NaiveSplit(str, sep)
    IN  IF all[Len(all)] = <<>> THEN SubSeq(all, 1, Len(all) - 1) ELSE all

CountSep(str, sep) == Cardinality({j \in 1..Len(str) : str[j] = sep})

RECURSIVE Join(_, _)
Join(toks, sep) ==
    IF toks = <<>> THEN <<>>
    ELSE IF Len(toks) = 1 THEN toks[1]
    ELSE toks[1] \o <<sep>> \o Join(Tail(toks), sep)

\* The first line of the file (empty when the file has none).
FirstLine == IF file.lines = <<>> THEN <<>> ELSE file.lines[1]

\* The index of the size line: the first line after the format line that is
\* not a comment (Len + 1 when there is none).
RECURSIVE FirstNonComment(_, _)
FirstNonComment(lines, j) ==
    IF j > Len(lines) THEN Len(lines) + 1
    ELSE IF StartsWithPercent(lines[j]) THEN FirstNonComment(lines, j + 1)
    ELSE j

\* The j-th data line of the file, and the 1-indexed row, col and the value
\* written on it.
DataLineAt(j) == file.lines[FirstNonComment(file.lines, 2) + j]
FieldsAt(j) ==
    LET t == NaiveSplit(DataLineAt(j), " ")
    IN  [row |-> parse_int(t[1]),
         col |-> parse_int(t[2]),
         value |-> IF header.value_type = "PATTERN" THEN 1 ELSE parse_num(t[3])]
RowAt(j) == FieldsAt(j).row
ColAt(j) == FieldsAt(j).col

\* The entries the format gives data line j: the entry 0-indexed, and its
\* mirror for an off-diagonal line of a symmetric file.
EntriesOfLine(j) ==
    LET f == FieldsAt(j)
    IN  <<[row |-> f.row - 1, col |-> f.col - 1, value |-> f.value]>> \o
        (IF Symmetric /\ f.row # f.col
         THEN <<[row |-> f.col - 1, col |-> f.row - 1, value |-> f.value]>>
         ELSE <<>>)

\* The entries of the first n data lines, in file order.
RECURSIVE EntriesUpTo(_)
EntriesUpTo(n) == IF n = 0 THEN <<>> ELSE EntriesUpTo(n - 1) \o EntriesOfLine(n)

\* The data lines read so far are the first i of the file.
ExpectedEntries == EntriesUpTo(i)

OffDiagonalLines == Cardinality({j \in 1..i : LET f == FieldsAt(j) IN f.row # f.col})
DiagonalLines == Cardinality({j \in 1..i : LET f == FieldsAt(j) IN f.row = f.col})

\* Slice m of the returned matrix as (minor index, value) pairs.
Slice(m) ==
    [p \in 1..(matrix.offsets[m + 2] - matrix.offsets[m + 1]) |->
        <<matrix.indices[matrix.offsets[m + 1] + p], matrix.values[matrix.offsets[m + 1] + p]>>]

\* The (minor index, value) pairs of the expected entries of major index m,
\* in file order.
ExpectedPairs(m) ==
    LET sel == SelectSeq(ExpectedEntries, LAMBDA e : Major(e, target) = m)
    IN  [p \in 1..Len(sel) |-> <<Minor(sel[p], target), sel[p].value>>]

RECURSIVE SumDiffs(_)
SumDiffs(offs) ==
    IF Len(offs) < 2 THEN 0
    ELSE (offs[2] - offs[1]) + SumDiffs(Tail(offs))

\* The stable sort of s by Comp: each element goes before the first element
\* of the sorted rest that is not before it.
RECURSIVE StableSort(_, _)
StableSort(s, t) ==
    IF s = <<>> THEN <<>>
    ELSE LET r == StableSort(Tail(s), t)
             p == CHOOSE q \in 1..(Len(r) + 1) :
                      /\ \A u \in 1..(q - 1) : Comp(r[u], Head(s), t)
                      /\ q <= Len(r) => ~Comp(r[q], Head(s), t)
         IN  InsertAt(r, p, Head(s))

(***************************************************************************)
(* The claims                                                              *)
(***************************************************************************)

\* C1: after every successful decode the returned offsets array is
\* non-decreasing, starts with 0, ends with the returned num_nonzeros and has
\* exactly major_dimension + 1 elements.
C1_OffsetsWellFormed ==
    Decoded =>
        /\ Len(matrix.offsets) = MajorDim(header, target) + 1
        /\ matrix.offsets[1] = 0
        /\ matrix.offsets[Len(matrix.offsets)] = matrix.num_nonzeros
        /\ \A p \in 1..(Len(matrix.offsets) - 1) : matrix.offsets[p] <= matrix.offsets[p + 1]

\* C2: after every successful decode, for every major index m below the major
\* dimension, positions [offsets[m], offsets[m+1]) hold exactly the (minor
\* index, value) pairs, as a multiset, of the entries after symmetry expansion
\* whose major index is m, and the minor indices of the slice are ascending.
C2_SlicesHoldEntries ==
    Decoded =>
        \A m \in 0..(MajorDim(header, target) - 1) :
            /\ m + 2 <= Len(matrix.offsets)
            /\ 0 <= matrix.offsets[m + 1]
            /\ matrix.offsets[m + 1] <= matrix.offsets[m + 2]
            /\ matrix.offsets[m + 2] <= Len(matrix.indices)
            /\ Len(matrix.values) = Len(matrix.indices)
            /\ SeqToBag(Slice(m)) = SeqToBag(ExpectedPairs(m))
            /\ \A p \in 1..(Len(Slice(m)) - 1) : Slice(m)[p][1] <= Slice(m)[p + 1][1]

\* A symmetric file decoded with a slice of two entries of different minor index.
C2_Witness ==
    /\ Decoded
    /\ Symmetric
    /\ \E m \in 0..(MajorDim(header, target) - 1) :
           /\ m + 2 <= Len(matrix.offsets)
           /\ matrix.offsets[m + 2] - matrix.offsets[m + 1] >= 2
           /\ Slice(m)[1][1] < Slice(m)[2][1]

\* C3: the accumulated entries are, as a multiset, each line's 0-indexed entry
\* plus the mirror of each off-diagonal line of a symmetric file and nothing
\* else; so with k off-diagonal and d diagonal lines a symmetric decode returns
\* num_nonzeros = 2k + d (the length of the index and value arrays), and a
\* general decode returns one entry per line.
C3_SymmetryDoubling ==
    LET n == IF Symmetric THEN 2 * OffDiagonalLines + DiagonalLines ELSE i
    IN  /\ pc \in {"data", "compress", "return", "done"} =>
               /\ Len(nonzeros) = n
               /\ SeqToBag(nonzeros) = SeqToBag(ExpectedEntries)
        /\ Decoded =>
               /\ matrix.num_nonzeros = n
               /\ Len(matrix.indices) = n
               /\ Len(matrix.values) = n

\* A symmetric file decoded with an off-diagonal and a diagonal line.
C3_Witness ==
    /\ Decoded
    /\ Symmetric
    /\ OffDiagonalLines >= 1
    /\ DiagonalLines >= 1

\* C4: for a general file the slice lengths sum to the returned num_nonzeros,
\* which is the number of data lines read, and every position (row, col) holds
\* as many stored entries as there are data lines that list it: nothing is
\* deduplicated or summed.
C4_GeneralKeepsEveryLine ==
    (Decoded /\ ~Symmetric) =>
        /\ SumDiffs(matrix.offsets) = matrix.num_nonzeros
        /\ matrix.num_nonzeros = header.num_nonzeros
        /\ matrix.num_nonzeros = i
        /\ \A m \in 0..(MajorDim(header, target) - 1) :
           \A n \in 0..(MinorDim(header, target) - 1) :
               Cardinality({p \in 1..(matrix.offsets[m + 2] - matrix.offsets[m + 1]) :
                               Slice(m)[p][1] = n})
               = Cardinality({j \in 1..i :
                               /\ Major([row |-> RowAt(j) - 1, col |-> ColAt(j) - 1], target) = m
                               /\ Minor([row |-> RowAt(j) - 1, col |-> ColAt(j) - 1], target) = n})

\* A general file decoded whose two data lines list the same (row, col).
C4_Witness ==
    /\ Decoded
    /\ ~Symmetric
    /\ i = 2
    /\ RowAt(1) = RowAt(2)
    /\ ColAt(1) = ColAt(2)
    /\ matrix.num_nonzeros = 2

\* C5: every accumulated entry, mirrored ones included, has 0 <= row < num_rows
\* and 0 <= col < num_cols, and every returned minor index is below the minor
\* dimension.
C5_EntriesInBounds ==
    /\ \A p \in 1..Len(nonzeros) :
           /\ 0 <= nonzeros[p].row /\ nonzeros[p].row < header.num_rows
           /\ 0 <= nonzeros[p].col /\ nonzeros[p].col < header.num_cols
    /\ Decoded =>
           \A p \in 1..Len(matrix.indices) :
               0 <= matrix.indices[p] /\ matrix.indices[p] < MinorDim(header, target)

\* C6: no data line whose 1-indexed row is outside [1, num_rows] or whose
\* 1-indexed col is outside [1, num_cols] is ever read without the decode
\* failing, wherever the line stands; a failed decode returns no matrix.
C6_OutOfBoundsRejected ==
    /\ pc \in {"data", "compress", "return", "done"} =>
           \A j \in 1..i :
               LET f == FieldsAt(j)
               IN  /\ 1 <= f.row /\ f.row <= header.num_rows
                   /\ 1 <= f.col /\ f.col <= header.num_cols
    /\ Decoded => i = header.num_nonzeros
    /\ Failed => matrix = NoMatrix

\* The decode failed on row 0 of the second data line, the first being valid.
C6_Witness ==
    /\ Failed
    /\ err = "Bad Matrix: row out of bounds"
    /\ i = 1
    /\ RowAt(2) = 0

\* C7: the values come out in the order a stable sort on (major, minor) gives:
\* entries of equal (row, col) keep the order in which they were accumulated.
C7_SortIsStable ==
    Decoded =>
        matrix.values =
            [p \in 1..Len(ExpectedEntries) |-> StableSort(ExpectedEntries, target)[p].value]

\* What the format line must be, on a given split of it into tokens.
FormatTokensOK(toks) ==
    /\ Len(toks) = 5
    /\ toks[1] = <<"%%MatrixMarket">>
    /\ toks[2] = <<"matrix">>
    /\ toks[3] = <<"coordinate">>
    /\ toks[4] \in {<<"real">>, <<"integer">>, <<"pattern">>}
    /\ toks[5] \in {<<"general">>, <<"symmetric">>}

ValueFormatNamed(tok) ==
    IF tok = <<"real">> THEN "REAL" ELSE IF tok = <<"integer">> THEN "INTEGER" ELSE "PATTERN"

SymmetryNamed(tok) == IF tok = <<"general">> THEN "GENERAL" ELSE "SYMMETRIC"

FormatLineErrors ==
    {"Bad Header: ill-shaped format line", "Bad Header: missing %%MatrixMarket",
     "Bad Header: only matrix supported", "Bad Header: only coordinate supported",
     "Bad Header: unknown value format", "Bad Header: unknown symmetry"}

\* The format line is accepted exactly when toks is well-formed; a rejection
\* is thrown with the first line alone read and nothing of the header or the
\* data interpreted; on acceptance the enums are those tokens 3 and 4 name.
FormatLineJudgedBy(toks) ==
    pc # "header" =>
        /\ FormatTokensOK(toks) <=> ~(Failed /\ err \in FormatLineErrors)
        /\ (Failed /\ err \in FormatLineErrors) =>
               /\ pos <= 2
               /\ header = NoHeader
               /\ i = 0
               /\ nonzeros = <<>>
               /\ matrix = NoMatrix
        /\ FormatTokensOK(toks) =>
               /\ header.value_type = ValueFormatNamed(toks[4])
               /\ header.symmetry = SymmetryNamed(toks[5])

\* C8 as stated: read_header accepts the first line if and only if its split
\* on single spaces (every segment kept) is the five tokens of a supported
\* format line; any other first line fails before a dimension or data line is
\* interpreted; on acceptance value_type and symmetry are the enums named.
C8_AcceptsIffNaiveSplitOK == FormatLineJudgedBy(NaiveSplit(FirstLine, " "))

\* C8 as amended: the same with the split the lexer makes, which drops a last
\* empty segment, so that one space after the fifth token is accepted too.
C8_AcceptsIffLexedOK == FormatLineJudgedBy(SplitDroppingLastEmpty(FirstLine, " "))

\* A format line with a trailing space was accepted as integer, symmetric.
C8_Witness ==
    /\ pc = "skip_read"
    /\ Len(NaiveSplit(FirstLine, " ")) = 6
    /\ header.value_type = "INTEGER"
    /\ header.symmetry = "SYMMETRIC"

\* The lexer's state and return values, were the tokens of tstr the sequence all.
LexerYields(all) ==
    /\ lastop # "none" =>
           /\ npop <= Len(all)
           /\ Len(tokens) = Len(all) - npop
           /\ tokens = SubSeq(all, npop + 1, Len(all))
    /\ lastop = "pop" => ret = all[npop]
    /\ lastop = "peek" => ret = all[npop + 1]

\* C9 as stated: the tokens are the naive split with empty segments kept: a
\* line with n separators gives n + 1 tokens whose join is the line; pop()
\* returns them in order, each call reducing size() by one, and peek() returns
\* the next one leaving size() as it is.
C9_TokensAreNaiveSplit ==
    /\ LexerYields(NaiveSplit(tstr, tsep))
    /\ lastop = "ctor" =>
           /\ Len(tokens) = CountSep(tstr, tsep) + 1
           /\ Join(tokens, tsep) = tstr

\* C9 as amended: the same, except that the last segment is dropped when it is
\* empty: an empty line gives no token, a line ending with the separator gives
\* n tokens whose join is the line without that last separator.
C9_TokensDropLastEmpty ==
    /\ LexerYields(SplitDroppingLastEmpty(tstr, tsep))
    /\ \A p \in 1..Len(tokens) : \A q \in 1..Len(tokens[p]) : tokens[p][q] # tsep
    /\ lastop = "ctor" =>
           IF tstr = <<>> THEN tokens = <<>>
           ELSE IF tstr[Len(tstr)] = tsep
           THEN /\ Len(tokens) = CountSep(tstr, tsep)
                /\ Join(tokens, tsep) \o <<tsep>> = tstr
           ELSE /\ Len(tokens) = CountSep(tstr, tsep) + 1
                /\ Join(tokens, tsep) = tstr

\* Every token of a line with a leading, a repeated and a trailing separator
\* has been popped.
C9_Witness ==
    /\ lastop = "pop"
    /\ tokens = <<>>
    /\ tstr = <<tsep, tsep, "a", tsep>>
    /\ npop = 3

\* C10: on every file the decode eventually returns or throws.
C10_Terminates == <>(Decoded \/ Failed)

====
